---- MODULE Spec2Model ----
(***************************************************************************)
(* Dead man's switch (serverkraken/deadmansnitch): the liveness state      *)
(* machine of app/services/watchdog_service.py, the monitor loop of        *)
(* app/services/watchdog_monitor.py and the file repository of             *)
(* app/persistence/file_repository.py, as one process with two request     *)
(* handler threads and the monitor thread.                                 *)
(*                                                                         *)
(* Time is the value time.time() returns.  It advances by the amounts of   *)
(* TickSteps; every timestamp the program stores is a value of the clock.  *)
(* A blocking "with lock:" is an action that is enabled only when the lock *)
(* is free.  A sleep is the thread not being scheduled.                    *)
(***************************************************************************)
EXTENDS Integers, Sequences, FiniteSets, TLC

\* ---------------------------------------------------------------- bounds
MaxTicks == 2
MaxSubmits == 2
MaxPeerSubmits == 2

\* the clock at process start (an epoch time: larger than every interval)
StartTimes == {100000}
\* the amounts by which the clock advances between two steps
TickSteps == {61}

\* ------------------------------------------------------- configuration
\* Config reads both intervals from the environment (config.py lines 29, 31);
\* the timeout is the one of the test configuration, and the resend interval
\* is set equal to it so that one step of the clock exceeds both.
watchdog_timeout == 60
alert_resend_interval == 60
expected_alertname == "Watchdog"
\* literals of the code
RefreshCacheSecs == 5
DailyStatusSecs == 86400

Handlers == {"h1", "h2"}
Monitor == "monitor"
Threads == Handlers \cup {Monitor}

\* ------------------------------------------------------ WatchdogState
\* WatchdogState.__init__
DefaultState ==
  [ last_watchdog_time |-> 0,
    last_watchdog_details |-> <<>>,
    status |-> "initializing",
    total_received |-> 0,
    invalid_received |-> 0,
    last_status_notification |-> 0,
    last_alert_notification |-> 0 ]

\* variant that counts the submission twice as invalid and not in the total
record_invalid_alert_twice(s) ==
  [s EXCEPT !.invalid_received = @ + 2]

\* WatchdogState.record_invalid_alert
record_invalid_alert(s) ==
  [s EXCEPT !.invalid_received = @ + 1, !.total_received = @ + 1]

\* WatchdogState.record_watchdog_alert (alert is a mapping with mapping labels)
record_watchdog_alert(s, alert, t) ==
  [s EXCEPT !.last_watchdog_time = t,
            !.last_watchdog_details = <<alert.alertname>>,
            !.status = "ok"]

\* WatchdogState.set_alert_status
set_alert_status(s) == [s EXCEPT !.status = "alert"]

\* WatchdogState.update_alert_notification
update_alert_notification(s, t) == [s EXCEPT !.last_alert_notification = t]

\* WatchdogState.update_status_notification
update_status_notification(s, t) == [s EXCEPT !.last_status_notification = t]

\* WatchdogState.time_since_last_watchdog
time_since_last_watchdog(s, t) == t - s.last_watchdog_time

\* ------------------------------------------------------------ payloads
\* An alert: is it a mapping, has it "labels", is labels a mapping, and the
\* alertname in it ("" when absent).
Alert(isdict, haslabels, labelsdict, name) ==
  [isdict |-> isdict, haslabels |-> haslabels, labelsdict |-> labelsdict,
   alertname |-> name]
GoodAlert == Alert(TRUE, TRUE, TRUE, "Watchdog")
WrongAlert == Alert(TRUE, TRUE, TRUE, "WrongName")
NoLabelsAlert == Alert(TRUE, FALSE, TRUE, "")
BadLabelsAlert == Alert(TRUE, TRUE, FALSE, "")
NotAnAlert == Alert(FALSE, FALSE, FALSE, "")

\* A payload: None, a non-mapping, or a mapping that may have "alerts" (a
\* list or not) and may itself carry labels (the direct form).
Payload(kind, hasalerts, islist, alerts, self) ==
  [kind |-> kind, hasalerts |-> hasalerts, alertslist |-> islist,
   alerts |-> alerts, self |-> self]

PNone == Payload("none", FALSE, FALSE, <<>>, NotAnAlert)
PNotDict == Payload("other", FALSE, FALSE, <<>>, NotAnAlert)
PEmptyDict == Payload("dict", FALSE, FALSE, <<>>, NoLabelsAlert)
PEmptyAlerts == Payload("dict", TRUE, TRUE, <<>>, NoLabelsAlert)
PAlertsNotList == Payload("dict", TRUE, FALSE, <<>>, NoLabelsAlert)
\* {"alerts": [], "labels": {"alertname": "Watchdog"}}
PEmptyAlertsLabels == Payload("dict", TRUE, TRUE, <<>>, GoodAlert)
PBatchGood == Payload("dict", TRUE, TRUE, <<GoodAlert>>, NoLabelsAlert)
PBatchWrong == Payload("dict", TRUE, TRUE, <<WrongAlert, GoodAlert>>, NoLabelsAlert)
PBatchNoLabels == Payload("dict", TRUE, TRUE, <<NoLabelsAlert>>, NoLabelsAlert)
PBatchNotAlert == Payload("dict", TRUE, TRUE, <<NotAnAlert>>, NoLabelsAlert)
PDirectGood == Payload("dict", FALSE, FALSE, <<>>, GoodAlert)
PDirectWrong == Payload("dict", FALSE, FALSE, <<>>, WrongAlert)
PDirectBadLabels == Payload("dict", FALSE, FALSE, <<>>, BadLabelsAlert)

Payloads ==
  { PNone, PNotDict, PEmptyDict, PEmptyAlerts, PAlertsNotList,
    PEmptyAlertsLabels, PBatchGood,
    PBatchWrong, PBatchNoLabels, PBatchNotAlert, PDirectGood, PDirectWrong,
    PDirectBadLabels }

\* WatchdogService._validate_watchdog_alert
validate_watchdog_alert(p) ==
  IF p.kind = "dict"
    THEN IF p.hasalerts
           THEN p.alertslist /\ Len(p.alerts) > 0
           ELSE p.self.haslabels
    ELSE FALSE

\* process_watchdog_alert, line 63: the alert that is inspected, the first
\* element for the batch form, the payload itself for the direct form
InspectedAlert(p) == IF p.hasalerts THEN p.alerts[1] ELSE p.self

\* line 66: alert.get("labels", {}).get("alertname", "") raises when the
\* alert or its labels is not a mapping
alertname_raises(a) == ~a.isdict \/ (a.haslabels /\ ~a.labelsdict)
alertname_of(a) == IF a.haslabels THEN a.alertname ELSE ""

\* the way a submission leaves process_watchdog_alert
Outcome(p) ==
  IF p.kind # "dict" THEN "early_reject"
  ELSE IF ~validate_watchdog_alert(p) THEN "invalid_format"
  ELSE IF alertname_raises(InspectedAlert(p)) THEN "raise"
  ELSE IF alertname_of(InspectedAlert(p)) # expected_alertname THEN "wrong_name"
  ELSE "accepted"

\* ---------------------------------------------------------- repository
\* WatchdogState.to_dict
to_dict(s) ==
  [ last_watchdog_time |-> s.last_watchdog_time,
    last_watchdog_details |-> s.last_watchdog_details,
    status |-> s.status,
    total_received |-> s.total_received,
    invalid_received |-> s.invalid_received,
    last_status_notification |-> s.last_status_notification,
    last_alert_notification |-> s.last_alert_notification ]

\* variant that does not read total_received
from_dict_no_total(s, d) ==
  [ s EXCEPT !.last_watchdog_time = d.last_watchdog_time,
             !.last_watchdog_details = d.last_watchdog_details,
             !.status = d.status,
             !.invalid_received = d.invalid_received,
             !.last_status_notification = d.last_status_notification,
             !.last_alert_notification = d.last_alert_notification ]

\* WatchdogState.from_dict, on a document that has every key
from_dict(s, d) ==
  [ s EXCEPT !.last_watchdog_time = d.last_watchdog_time,
             !.last_watchdog_details = d.last_watchdog_details,
             !.status = d.status,
             !.total_received = d.total_received,
             !.invalid_received = d.invalid_received,
             !.last_status_notification = d.last_status_notification,
             !.last_alert_notification = d.last_alert_notification ]

\* variant that returns a startup state for an unreadable record
load_existing_stamped(content) ==
  IF content = <<>>
    THEN [DefaultState EXCEPT !.status = "waiting_for_first_alert"]
    ELSE from_dict(DefaultState, content[1])

\* The content of a file is <<>> (zero bytes) or <<document>>.
\* FileWatchdogRepository.load of an existing file: json.load of an empty
\* file raises, and the handler of the exception returns the default state
\* with the three timestamps set to 0.
load_existing(content) ==
  IF content = <<>>
    THEN [DefaultState EXCEPT !.last_watchdog_time = 0,
                              !.last_status_notification = 0,
                              !.last_alert_notification = 0]
    ELSE from_dict(DefaultState, content[1])

\* variant that does not set the status
load_fresh_initializing(t) ==
  [DefaultState EXCEPT !.last_watchdog_time = t,
                       !.last_status_notification = t]

\* FileWatchdogRepository.load when no file exists: the state it synthesizes
\* (and saves)
load_fresh(t) ==
  [DefaultState EXCEPT !.last_watchdog_time = t,
                       !.last_status_notification = t,
                       !.status = "waiting_for_first_alert"]

\* A record a previous run of the service left behind: one heartbeat was
\* accepted, the last daily status message is a day old.
ExistingRecord(t) ==
  [DefaultState EXCEPT !.last_watchdog_time = t,
                       !.last_watchdog_details = <<expected_alertname>>,
                       !.status = "ok",
                       !.total_received = 1,
                       !.last_status_notification = t - DailyStatusSecs]

\* ------------------------------------------------------------ variables
VARIABLES
  now,              \* time.time()
  ticks,            \* number of clock advances so far
  file,             \* content of watchdog_state.json: <<>> or <<document>>
  file_mtime,       \* its modification time
  tmp,              \* watchdog_state.json.tmp: <<>> (absent) or <<[data, mtime]>>
  state,            \* WatchdogService.state
  last_check_time,  \* WatchdogService._last_check_time (Unset: no attribute)
  last_file_mtime,  \* WatchdogService._last_file_mtime (Unset: no attribute)
  state_lock,       \* owner of WatchdogService.state_lock, or "none"
  pc,               \* position of every thread
  op,               \* what the thread is doing
  was_in_alert,     \* local of process_watchdog_alert (of the lock holder)
  fd,               \* the file object of _save_state_with_lock: "none",
                    \* "cur" (the inode at the path) or "old" (replaced)
  flk,              \* which threads hold a flock on their file object
  shared,           \* the two open file objects are of the same inode
  startup_time,     \* local of _run_monitor
  sent,             \* number of messages dispatched, by kind
  submitted,        \* number of calls of process_watchdog_alert so far
  edges,            \* history: number of times status went from alert to ok
  alert_sent_at,    \* history: the stamp of the last alert message of the
                    \* running alert episode (Unset: none so far)
  peer,             \* a second service process on the same data directory:
                    \* its state, its refresh attributes and the number of
                    \* heartbeats it has accepted
  watchdog_monitor, \* the WatchdogMonitor object, its threads and the callers
                    \* of start / when_ready
  instance,         \* WatchdogService._instance and its collaborators
  probes,           \* the KubernetesProbes object and its last answer
  notifier,         \* the Notifier: its providers and a running notify_all
  detailed          \* get_detailed_status: the call in progress and its reply

clockVars == <<now, ticks>>
fileVars == <<file, file_mtime, tmp>>
svcVars == <<state, last_check_time, last_file_mtime>>
fdVars == <<fd, flk, shared>>
hostVars == <<watchdog_monitor, instance, probes, notifier, detailed>>
vars == <<now, ticks, file, file_mtime, tmp, state, last_check_time,
          last_file_mtime, state_lock, pc, op, was_in_alert, fd, flk, shared,
          startup_time, sent, submitted, edges, alert_sent_at, peer, hostVars>>

Unset == -1

\* The callers of WatchdogMonitor.start and of the when_ready hook
\* no get_detailed_status is running and none has returned: health is the
\* health_status held between the two lock scopes, reply the returned mapping;
\* seen is the state of the service at the first scope (history)
NoQuery ==
  [asked |-> 0, health |-> <<>>, seen |-> <<>>, reply |-> <<>>]

Starters == {"c1", "c2", "c3"}

\* Notifier.__init__ and add_provider, lines 13-19: the providers in the order
\* they were added, each given by what its send does ("ok": returns True,
\* "fail": returns False, "raise": raises); no notify_all is running
IdleNotifier(ps) ==
  [providers |-> ps, i |-> 0, success |-> FALSE, tried |-> 0,
   result |-> "none"]

\* The process is up: create_app (or when_ready) has built the singleton with
\* its three collaborators, has called initialize and has started the monitor
\* once; the probes were built with the routes, no notify_all is running.
\* WatchdogMonitor.__init__: no thread yet (0 is None); threads are numbered
\* in the order of their creation
NewMonitor ==
  [thread |-> 0, alive |-> {}, created |-> 0, wake_at |-> 0,
   gunicorn |-> FALSE,
   monitor_thread_started |-> FALSE, calls |-> 0,
   pc |-> [c \in Starters |-> "idle"]]

HostRunning ==
  /\ watchdog_monitor = [NewMonitor EXCEPT !.thread = 1, !.alive = {1},
                                           !.created = 1]
  /\ instance = [made |-> TRUE, repository |-> TRUE, notifier |-> TRUE,
                 config |-> TRUE, loaded |-> TRUE, initialized |-> 1]
  /\ probes = [startup_time |-> now, monitor_thread_detected |-> FALSE,
               answer |-> <<>>]
  /\ detailed = NoQuery
  /\ notifier = IdleNotifier(<<>>)

\* an alert-to-ok transition of the service's status
Edge(s1, s2) == IF s1.status = "alert" /\ s2.status = "ok" THEN 1 ELSE 0

\* the alert episode ends when the status is no longer alert
Episode(s2) == IF s2.status = "alert" THEN alert_sent_at ELSE Unset

\* ----------------------------------------------------------------- Init
\* The state after create_app(): the repository is constructed, the service
\* is initialized (state = repository.load()) and the monitor thread is
\* started.  The data directory holds no record (fresh deployment) or the
\* record of a previous run.
InitService ==
  /\ now \in StartTimes
  /\ ticks = 0
  /\ \/ state = load_fresh(now)
     \/ state = load_existing(<<to_dict(ExistingRecord(now))>>)
  /\ file = <<to_dict(state)>>
  /\ file_mtime = now
  /\ tmp = <<>>
  /\ last_check_time = Unset
  /\ last_file_mtime = Unset
  /\ state_lock = "none"
  /\ pc = [t \in Threads |-> IF t = Monitor THEN "top" ELSE "idle"]
  /\ op = [t \in Threads |-> "none"]
  /\ was_in_alert = FALSE
  /\ fd = [t \in Threads |-> "none"]
  /\ flk = [t \in Threads |-> FALSE]
  /\ shared = FALSE
  /\ startup_time = now
  /\ sent = [alert |-> 0, repeated |-> 0, recovery |-> 0, status |-> 0]
  /\ submitted = 0
  /\ edges = 0
  /\ alert_sent_at = Unset
  /\ peer = [state |-> DefaultState, last_check_time |-> Unset,
             last_file_mtime |-> Unset, accepted |-> 0]

Init == InitService /\ HostRunning

\* ---------------------------------------------------------------- clock
Tick(d) ==
  /\ ticks < MaxTicks
  /\ now' = now + d
  /\ ticks' = ticks + 1
  /\ UNCHANGED <<fileVars, svcVars, state_lock, pc, op, was_in_alert, fdVars,
                 startup_time, sent, submitted>>
  /\ UNCHANGED <<edges, alert_sent_at, peer, hostVars>>

\* ------------------------------------------- _refresh_state_if_needed
\* The file exists in every reachable state (Init leaves one, and nothing
\* deletes it), so os.path.exists is true.
refresh_checks(t) ==
  last_check_time = Unset \/ t - last_check_time > RefreshCacheSecs
refresh_loads(t) ==
  refresh_checks(t) /\ (last_file_mtime = Unset \/ file_mtime > last_file_mtime)

\* the state, _last_check_time and _last_file_mtime after the call
refreshed_state(t) == IF refresh_loads(t) THEN load_existing(file) ELSE state
refreshed_check_time(t) == IF refresh_checks(t) THEN t ELSE last_check_time
refreshed_file_mtime(t) == IF refresh_loads(t) THEN file_mtime ELSE last_file_mtime

\* ----------------------------------------------- process_watchdog_alert
\* One call, from its start to the first access to the file after the
\* in-memory update.  None and non-mapping payloads return before the lock.
\* Otherwise: take state_lock, refresh, count, validate, and
\*   - invalid format or wrong name: record_invalid_alert, then
\*     repository.save (pc rs_tmp), 
\*   - the alert or its labels is not a mapping: line 66 raises, the with
\*     statement releases the lock and the exception leaves the call,
\*   - accepted: record_watchdog_alert, then _save_state_with_lock (sv_open).
process_watchdog_alert(h, p) ==
  /\ pc[h] = "idle"
  /\ submitted < MaxSubmits
  /\ submitted' = submitted + 1
  /\ IF Outcome(p) = "early_reject"
       THEN UNCHANGED <<svcVars, state_lock, pc, op, was_in_alert>>
       ELSE /\ state_lock = "none"
            /\ last_check_time' = refreshed_check_time(now)
            /\ last_file_mtime' = refreshed_file_mtime(now)
            /\ LET counted == [refreshed_state(now) EXCEPT !.total_received = @ + 1]
               IN CASE Outcome(p) \in {"invalid_format", "wrong_name"} ->
                         /\ state' = record_invalid_alert(counted)
                         /\ state_lock' = h
                         /\ pc' = [pc EXCEPT ![h] = "rs_tmp"]
                         /\ op' = [op EXCEPT ![h] = "hb"]
                         /\ UNCHANGED was_in_alert
                    [] Outcome(p) = "raise" ->
                         /\ state' = counted
                         /\ UNCHANGED <<state_lock, pc, op, was_in_alert>>
                    [] Outcome(p) = "accepted" ->
                         /\ was_in_alert' = (counted.status = "alert")
                         /\ state' = record_watchdog_alert(counted, InspectedAlert(p), now)
                         /\ state_lock' = h
                         /\ pc' = [pc EXCEPT ![h] = "sv_open"]
                         /\ op' = [op EXCEPT ![h] = "hb"]
  /\ UNCHANGED <<clockVars, fileVars, fdVars, startup_time, sent>>
  /\ edges' = edges + Edge(state, state')
  /\ alert_sent_at' = Episode(state')
  /\ UNCHANGED <<peer, hostVars>>

\* variant in which the end of the call leaves state_lock with the thread
Release_keeps_lock(t) ==
  /\ state_lock' = state_lock
  /\ was_in_alert' = FALSE
  /\ pc' = [pc EXCEPT ![t] = "idle"]
  /\ op' = [op EXCEPT ![t] = "none"]

\* where a thread goes on when its save is done
Release(t) ==
  /\ state_lock' = "none"
  /\ was_in_alert' = FALSE
  /\ pc' = [pc EXCEPT ![t] = "idle"]
  /\ op' = [op EXCEPT ![t] = "none"]

\* lines 82-88: send_recovery, inside the with block, then the lock is released
NotifyRecovery(h) ==
  /\ h \in Handlers
  /\ pc[h] = "notify"
  /\ sent' = [sent EXCEPT !.recovery = @ + 1]
  /\ Release(h)
  /\ UNCHANGED <<clockVars, fileVars, svcVars, fdVars, startup_time, submitted>>
  /\ UNCHANGED <<edges, alert_sent_at, peer, hostVars>>

\* --------------------------------------------- _save_state_with_lock
\* lines 168-169: open(filepath, 'w') truncates the record to zero bytes;
\* fcntl.flock(f, LOCK_EX) then blocks while another file object of the same
\* inode holds the lock (pc sv_flock), and is taken at once otherwise
flock_free(t, sh) == ~(sh /\ \E u \in Threads \ {t} : flk[u])

SaveOpen(t) ==
  /\ pc[t] = "sv_open"
  /\ file' = <<>>
  /\ file_mtime' = now
  /\ fd' = [fd EXCEPT ![t] = "cur"]
  /\ shared' = (\E u \in Threads \ {t} : fd[u] = "cur")
  /\ IF flock_free(t, shared')
       THEN /\ flk' = [flk EXCEPT ![t] = TRUE]
            /\ pc' = [pc EXCEPT ![t] = "sv_tmp"]
       ELSE /\ pc' = [pc EXCEPT ![t] = "sv_flock"]
            /\ UNCHANGED flk
  /\ UNCHANGED <<clockVars, tmp, svcVars, state_lock, op, was_in_alert,
                 startup_time, sent, submitted>>
  /\ UNCHANGED <<edges, alert_sent_at, peer, hostVars>>

SaveFlock(t) ==
  /\ pc[t] = "sv_flock"
  /\ flock_free(t, shared)
  /\ flk' = [flk EXCEPT ![t] = TRUE]
  /\ pc' = [pc EXCEPT ![t] = "sv_tmp"]
  /\ UNCHANGED <<clockVars, fileVars, svcVars, state_lock, op, was_in_alert,
                 fd, shared, startup_time, sent, submitted>>
  /\ UNCHANGED <<edges, alert_sent_at, peer, hostVars>>

\* ------------------------------------- FileWatchdogRepository.save
\* lines 64-67: write the document to the temporary file
SaveTmp(t) ==
  /\ pc[t] \in {"sv_tmp", "rs_tmp"}
  /\ tmp' = <<[data |-> to_dict(state), mtime |-> now]>>
  /\ pc' = [pc EXCEPT ![t] = IF pc[t] = "sv_tmp" THEN "sv_replace" ELSE "rs_replace"]
  /\ UNCHANGED <<clockVars, file, file_mtime, svcVars, state_lock, op,
                 was_in_alert, fdVars, startup_time, sent, submitted>>
  /\ UNCHANGED <<edges, alert_sent_at, peer, hostVars>>

\* line 70: os.replace(tmp, file).  When another save has already moved the
\* temporary file away the call raises, and save returns False.
Replaced == IF tmp = <<>> THEN file ELSE <<tmp[1].data>>
ReplacedMtime == IF tmp = <<>> THEN file_mtime ELSE tmp[1].mtime

SaveReplace(t) ==
  /\ pc[t] \in {"sv_replace", "rs_replace"}
  /\ file' = Replaced
  /\ file_mtime' = ReplacedMtime
  /\ tmp' = <<>>
  /\ fd' = IF tmp = <<>> THEN fd
           ELSE [u \in Threads |-> IF fd[u] = "cur" THEN "old" ELSE fd[u]]
  /\ IF pc[t] = "sv_replace"
       THEN /\ pc' = [pc EXCEPT ![t] = "sv_close"]
            /\ UNCHANGED <<state_lock, op, was_in_alert>>
       ELSE \* repository.save of the invalid path: return False, message
            Release(t)
  /\ UNCHANGED <<clockVars, svcVars, flk, shared, startup_time, sent, submitted>>
  /\ UNCHANGED <<edges, alert_sent_at, peer, hostVars>>

\* variant in which closing the file object leaves the file lock in place
SaveClose_keeps_flock(t) ==
  /\ pc[t] = "sv_close"
  /\ fd' = [fd EXCEPT ![t] = "none"]
  /\ UNCHANGED <<flk, shared>>
  /\ last_file_mtime' = file_mtime
  /\ IF t = Monitor \/ (op[t] = "hb" /\ was_in_alert)
       THEN /\ pc' = [pc EXCEPT ![t] = "notify"]
            /\ UNCHANGED <<state_lock, op, was_in_alert>>
       ELSE IF op[t] = "detail"
         THEN \* get_health_status returns into get_detailed_status
              /\ state_lock' = "none"
              /\ pc' = [pc EXCEPT ![t] = "ds_second"]
              /\ UNCHANGED <<op, was_in_alert>>
         ELSE Release(t)
  /\ UNCHANGED <<clockVars, fileVars, state, last_check_time, startup_time,
                 sent, submitted>>
  /\ UNCHANGED <<edges, alert_sent_at, peer, hostVars>>

\* _save_state_with_lock, lines 172-175: the file object is closed (the flock
\* goes with it) and _last_file_mtime is set from the file at the path
SaveClose(t) ==
  /\ pc[t] = "sv_close"
  /\ fd' = [fd EXCEPT ![t] = "none"]
  /\ flk' = [flk EXCEPT ![t] = FALSE]
  /\ shared' = FALSE
  /\ last_file_mtime' = file_mtime
  /\ IF t = Monitor \/ (op[t] = "hb" /\ was_in_alert)
       THEN /\ pc' = [pc EXCEPT ![t] = "notify"]
            /\ UNCHANGED <<state_lock, op, was_in_alert>>
       ELSE IF op[t] = "detail"
         THEN \* get_health_status returns into get_detailed_status
              /\ state_lock' = "none"
              /\ pc' = [pc EXCEPT ![t] = "ds_second"]
              /\ UNCHANGED <<op, was_in_alert>>
         ELSE Release(t)
  /\ UNCHANGED <<clockVars, fileVars, state, last_check_time, startup_time,
                 sent, submitted>>
  /\ UNCHANGED <<edges, alert_sent_at, peer, hostVars>>

\* ---------------------------------------------------- get_health_status
\* Under state_lock: refresh; when the timeout is exceeded and status is not
\* alert, set_alert_status and _save_state_with_lock.
health_flips(s, t) ==
  time_since_last_watchdog(s, t) > watchdog_timeout /\ s.status # "alert"

get_health_status(h) ==
  /\ pc[h] = "idle"
  /\ state_lock = "none"
  /\ last_check_time' = refreshed_check_time(now)
  /\ last_file_mtime' = refreshed_file_mtime(now)
  /\ IF health_flips(refreshed_state(now), now)
       THEN /\ state' = set_alert_status(refreshed_state(now))
            /\ state_lock' = h
            /\ pc' = [pc EXCEPT ![h] = "sv_open"]
            /\ op' = [op EXCEPT ![h] = "health"]
       ELSE /\ state' = refreshed_state(now)
            /\ UNCHANGED <<state_lock, pc, op>>
  /\ UNCHANGED <<clockVars, fileVars, was_in_alert, fdVars, startup_time,
                 sent, submitted>>
  /\ edges' = edges + Edge(state, state')
  /\ alert_sent_at' = Episode(state')
  /\ UNCHANGED <<peer, hostVars>>

\* ---------------------------------------------- WatchdogMonitor._run_monitor
GraceSleepSecs == 30

\* variant with the comparison of line 44 reversed
in_grace_reversed(t) == t - startup_time > watchdog_timeout

\* line 44
in_grace(t) == t - startup_time < watchdog_timeout

\* lines 44-49: in the grace period, sleep(30) and continue
MonitorGrace ==
  /\ pc[Monitor] = "top"
  /\ in_grace(now)
  /\ pc' = [pc EXCEPT ![Monitor] = "grace"]
  /\ watchdog_monitor' =
       [watchdog_monitor EXCEPT !.wake_at = now + GraceSleepSecs]
  /\ UNCHANGED <<clockVars, fileVars, svcVars, state_lock, op, was_in_alert,
                 fdVars, startup_time, sent, submitted>>
  /\ UNCHANGED <<edges, alert_sent_at, peer, instance, probes, notifier, detailed>>

\* the sleep of line 48 is over: the next iteration begins
MonitorWake ==
  /\ pc[Monitor] = "grace"
  /\ now >= watchdog_monitor.wake_at
  /\ pc' = [pc EXCEPT ![Monitor] = "top"]
  /\ watchdog_monitor' = [watchdog_monitor EXCEPT !.wake_at = 0]
  /\ UNCHANGED <<clockVars, fileVars, svcVars, state_lock, op, was_in_alert,
                 fdVars, startup_time, sent, submitted>>
  /\ UNCHANGED <<edges, alert_sent_at, peer, instance, probes, notifier, detailed>>

\* variant that never decides the first alert
monitor_decision_no_first_alert(s, t) ==
  IF t - s.last_watchdog_time > watchdog_timeout
    THEN IF s.status # "alert" THEN "none"
         ELSE IF t - s.last_alert_notification >= alert_resend_interval
                THEN "repeated"
                ELSE "none"
    ELSE IF s.status = "ok" /\ t - s.last_status_notification >= DailyStatusSecs
           THEN "status"
           ELSE "none"

\* lines 72-121: what the iteration decides from the values it read
monitor_decision(s, t) ==
  IF t - s.last_watchdog_time > watchdog_timeout
    THEN IF s.status # "alert" THEN "alert"
         ELSE IF t - s.last_alert_notification >= alert_resend_interval
                THEN "repeated"
                ELSE "none"
    ELSE IF s.status = "ok" /\ t - s.last_status_notification >= DailyStatusSecs
           THEN "status"
           ELSE "none"

\* lines 41-62: current_time, then under state_lock: refresh and read the four
\* fields; the lock is released before the decision is taken
MonitorRead ==
  /\ pc[Monitor] = "top"
  /\ ~in_grace(now)
  /\ state_lock = "none"
  /\ state' = refreshed_state(now)
  /\ last_check_time' = refreshed_check_time(now)
  /\ last_file_mtime' = refreshed_file_mtime(now)
  /\ LET d == monitor_decision(refreshed_state(now), now)
     IN /\ op' = [op EXCEPT ![Monitor] = d]
        /\ pc' = [pc EXCEPT ![Monitor] = IF d = "none" THEN "top" ELSE "write"]
  /\ UNCHANGED <<clockVars, fileVars, state_lock, was_in_alert, fdVars,
                 startup_time, sent, submitted>>
  /\ edges' = edges + Edge(state, state')
  /\ alert_sent_at' = Episode(state')
  /\ UNCHANGED <<peer, hostVars>>

\* lines 78-83, 98-99, 114-115: the second with block of the iteration
monitor_write(s, d, t) ==
  CASE d = "alert" -> update_alert_notification(set_alert_status(s), t)
    [] d = "repeated" -> update_alert_notification(s, t)
    [] d = "status" -> update_status_notification(s, t)

MonitorWrite ==
  /\ pc[Monitor] = "write"
  /\ state_lock = "none"
  /\ state' = monitor_write(state, op[Monitor], now)
  /\ pc' = [pc EXCEPT ![Monitor] = "sv_open"]
  /\ UNCHANGED <<clockVars, fileVars, last_check_time, last_file_mtime,
                 state_lock, op, was_in_alert, fdVars, startup_time, sent,
                 submitted>>
  /\ edges' = edges + Edge(state, state')
  /\ alert_sent_at' = IF op[Monitor] \in {"alert", "repeated"} THEN now
                      ELSE Episode(state')
  /\ UNCHANGED <<peer, hostVars>>

\* lines 89, 105-107, 121: the dispatch, then sleep(1) and the next iteration
MonitorNotify ==
  /\ pc[Monitor] = "notify"
  /\ sent' = [sent EXCEPT ![op[Monitor]] = @ + 1]
  /\ pc' = [pc EXCEPT ![Monitor] = "top"]
  /\ op' = [op EXCEPT ![Monitor] = "none"]
  /\ UNCHANGED <<clockVars, fileVars, svcVars, state_lock, was_in_alert,
                 fdVars, startup_time, submitted>>
  /\ UNCHANGED <<edges, alert_sent_at, peer, hostVars>>

\* ----------------------------------------------------------------- Next
Next ==
  \/ \E d \in TickSteps : Tick(d)
  \/ \E h \in Handlers, p \in Payloads : process_watchdog_alert(h, p)
  \/ \E h \in Handlers : NotifyRecovery(h)
  \/ \E h \in Handlers : get_health_status(h)
  \/ \E t \in Threads : SaveOpen(t)
  \/ \E t \in Threads : SaveFlock(t)
  \/ \E t \in Threads : SaveTmp(t)
  \/ \E t \in Threads : SaveReplace(t)
  \/ \E t \in Threads : SaveClose(t)
  \/ MonitorGrace
  \/ MonitorWake
  \/ MonitorRead
  \/ MonitorWrite
  \/ MonitorNotify

Spec == Init /\ [][Next]_vars

TypeOK ==
  /\ state.status \in {"initializing", "waiting_for_first_alert", "ok", "alert"}
  /\ state_lock \in Handlers \cup {"none"}


\* ---------------------------------------------------------- scheduling
\* The monitor is a daemon thread in an endless loop (watchdog_monitor.py
\* lines 28-31, 39): whenever it can take a step it eventually takes one.  Its
\* steps that need state_lock are enabled again and again, because a handler
\* releases the lock at the end of its call; hence strong fairness.
MonitorStep ==
  \/ MonitorGrace \/ MonitorWake \/ MonitorRead \/ MonitorWrite \/ MonitorNotify
  \/ SaveOpen(Monitor) \/ SaveFlock(Monitor) \/ SaveTmp(Monitor)
  \/ SaveReplace(Monitor) \/ SaveClose(Monitor)

\* a request handler that has started a call runs it to its end
HandlerStep(h) ==
  \/ SaveOpen(h) \/ SaveFlock(h) \/ SaveTmp(h) \/ SaveReplace(h) \/ SaveClose(h)
  \/ NotifyRecovery(h)

\* Requests arrive or not (no fairness); time passes as long as the clock of
\* the model can advance.
FairSpec ==
  /\ Spec
  /\ SF_vars(MonitorStep)
  /\ \A h \in Handlers : WF_vars(HandlerStep(h))
  /\ WF_vars(\E d \in TickSteps : Tick(d))

\* --------------------------------- runs with valid heartbeats only
ValidPayloads == {p \in Payloads : Outcome(p) = "accepted"}

InitFresh == Init /\ state = load_fresh(now)

NextHeartbeats ==
  \/ \E d \in TickSteps : Tick(d)
  \/ \E h \in Handlers, p \in ValidPayloads : process_watchdog_alert(h, p)
  \/ \E h \in Handlers : NotifyRecovery(h)
  \/ \E h \in Handlers : get_health_status(h)
  \/ \E t \in Threads : SaveOpen(t)
  \/ \E t \in Threads : SaveFlock(t)
  \/ \E t \in Threads : SaveTmp(t)
  \/ \E t \in Threads : SaveReplace(t)
  \/ \E t \in Threads : SaveClose(t)
  \/ MonitorGrace
  \/ MonitorWake
  \/ MonitorRead
  \/ MonitorWrite
  \/ MonitorNotify

SpecHeartbeats == InitFresh /\ [][NextHeartbeats]_vars


\* ========================================================== properties
SubmitStep(outs) ==
  \E h \in Handlers, p \in Payloads :
    Outcome(p) \in outs /\ process_watchdog_alert(h, p)

AllIdle == \A h \in Handlers : pc[h] = "idle"

TimedOut == now - state.last_watchdog_time > watchdog_timeout

\* status ok, grace window over, no heartbeat for longer than the timeout
Due == state.status = "ok" /\ ~in_grace(now) /\ TimedOut

\* the monitor is at its send_alert / send_repeated_alert call
Dispatching == pc[Monitor] = "notify" /\ op[Monitor] \in {"alert", "repeated"}

\* The clock of the model has stopped inside the resend window: the status is
\* alert and the next alert message waits for time that the model cannot let
\* pass.
Suppressed ==
  /\ ticks = MaxTicks
  /\ state.status = "alert"
  /\ now - state.last_alert_notification < alert_resend_interval

\* C1: under fair scheduling of the monitor loop, when status is ok, the grace
\* window is over and the time since last_watchdog_time exceeds the timeout,
\* then, unless a heartbeat is accepted, status eventually becomes alert and
\* the monitor eventually dispatches an alert notification.
C1_MonitorEventuallyAlerts ==
  /\ Due ~> (state.status = "alert" \/ ~TimedOut)
  /\ Due ~> (Dispatching \/ ~TimedOut \/ Suppressed)

\* C1 happens: a heartbeat had been accepted (status ok), the outage is still
\* on, the status is alert and the initial alert has been dispatched.
C1_Witness ==
  /\ state.last_watchdog_details # <<>>
  /\ state.status = "alert"
  /\ TimedOut
  /\ ~in_grace(now)
  /\ sent.alert >= 1

\* C2: a valid heartbeat accepted while status is alert sets status to ok and
\* dispatches one recovery notification, one accepted while status is not
\* alert dispatches none, and so, whenever no handler is inside a call, the
\* number of recovery dispatches equals the number of alert-to-ok transitions.
C2_RecoveryPerTransition ==
  /\ [][SubmitStep({"accepted"}) =>
          /\ state'.status = "ok"
          /\ was_in_alert' = (state.status = "alert")]_vars
  /\ [](AllIdle => sent.recovery = edges)

\* C3: the monitor sets status to alert only when the time since the
\* last_watchdog_time stored at that moment exceeds the timeout.
C3_AlertOnlyWhenTimedOut ==
  [][(MonitorWrite /\ op[Monitor] = "alert") =>
        now - state.last_watchdog_time > watchdog_timeout]_vars

\* a step that runs _refresh_state_if_needed
RefreshStep ==
  \/ SubmitStep({"invalid_format", "wrong_name", "raise", "accepted"})
  \/ \E h \in Handlers : get_health_status(h)
  \/ MonitorRead

\* C4: a load of the durable record never returns an empty or defaulted
\* record: whenever a refresh loads the file, the file holds a complete
\* saved state.
C4_NoTornLoad ==
  [][(RefreshStep /\ refresh_loads(now)) => file # <<>>]_vars

\* C5: in a run of valid heartbeat submissions only, total_received equals the
\* number of submissions and every accepted heartbeat leaves status ok.
C5_TotalEqualsSubmissions ==
  /\ [](state.total_received = submitted)
  /\ [][SubmitStep({"accepted"}) => state'.status = "ok"]_vars

\* C6: every invalid submission (null or non-mapping payload, empty or
\* missing alert list, wrong alert name) increases invalid_received by exactly
\* one and leaves status and last_watchdog_time unchanged.
C6_InvalidCountedOnce ==
  [][SubmitStep({"early_reject", "invalid_format", "wrong_name"}) =>
        /\ state'.invalid_received = state.invalid_received + 1
        /\ state'.status = state.status
        /\ state'.last_watchdog_time = state.last_watchdog_time]_vars

\* C7: every submission, valid or invalid, increases total_received by
\* exactly one.
C7_TotalCountsOnce ==
  [][SubmitStep({"early_reject", "invalid_format", "wrong_name", "raise",
                 "accepted"}) =>
        state'.total_received = state.total_received + 1]_vars

\* C8: neither counter ever decreases, in the in-memory state or from one
\* durable record to the next.
C8_CountersMonotonic ==
  [][/\ state'.total_received >= state.total_received
     /\ state'.invalid_received >= state.invalid_received
     /\ (file # <<>> /\ file' # <<>>) =>
          /\ file'[1].total_received >= file[1].total_received
          /\ file'[1].invalid_received >= file[1].invalid_received]_vars

\* C9: in every reachable state invalid_received <= total_received, in the
\* in-memory state and in the durable record.
C9_InvalidAtMostTotal ==
  /\ state.invalid_received <= state.total_received
  /\ file # <<>> => file[1].invalid_received <= file[1].total_received

\* C9 happens: an invalid submission has been counted and saved.
C9_Witness ==
  /\ state.invalid_received >= 1
  /\ file # <<>>
  /\ file[1].invalid_received >= 1

\* C10: within one alert episode the monitor stamps last_alert_notification
\* (and dispatches an alert message) only when at least the resend interval
\* has passed since the previous stamp of the episode.
C10_ResendSuppression ==
  [][(MonitorWrite /\ op[Monitor] \in {"alert", "repeated"}
        /\ alert_sent_at # Unset) =>
        now - alert_sent_at >= alert_resend_interval]_vars


\* ------------------------------------------- runs with a finer clock
\* The clock also advances by an amount between the refresh cache time (5 s)
\* and the timeout: a request can then arrive after the cache has expired
\* while the last heartbeat is still fresh.
ShortSteps == {6}

NextShort == Next \/ \E d \in ShortSteps : Tick(d)

SpecShort == Init /\ [][NextShort]_vars

\* the startup phases (waiting_for_first_heartbeat is waiting_for_first_alert
\* in the code)
StartupStatuses == {"initializing", "waiting_for_first_alert"}

\* get_health_status, lines 120-134: the object it returns for the state it
\* leaves behind
health_status(s) == [status |-> s.status, is_healthy |-> (s.status = "ok")]

HealthStep == \E h \in Handlers : get_health_status(h)

\* C11: while status is initializing or waiting_for_first_alert no monitor
\* iteration changes the status to alert, and status becomes alert only from
\* ok.
C11_StartupExempt ==
  /\ [][((MonitorRead \/ MonitorWrite) /\ state.status \in StartupStatuses) =>
          state'.status # "alert"]_vars
  /\ [][(state.status # "alert" /\ state'.status = "alert") =>
          state.status = "ok"]_vars

\* C12: a health query made while status is initializing or
\* waiting_for_first_alert leaves the status as it is and reports
\* is_healthy = false.
C12_HealthStartupExempt ==
  [][(HealthStep /\ state.status \in StartupStatuses) =>
        /\ state'.status = state.status
        /\ health_status(state').is_healthy = FALSE]_vars

\* C13: a health query on status ok with the timeout exceeded returns status
\* alert, is_healthy false, and its save puts status alert into the durable
\* record; a health query with the timeout not exceeded leaves the status
\* unchanged and returns is_healthy = (status = ok).
C13_HealthQuery ==
  /\ [][(HealthStep /\ state.status = "ok"
           /\ time_since_last_watchdog(state, now) > watchdog_timeout) =>
          health_status(state') = [status |-> "alert", is_healthy |-> FALSE]]_vars
  /\ [][\A h \in Handlers : (SaveReplace(h) /\ op[h] = "health") =>
          (file' # <<>> /\ file'[1].status = "alert")]_vars
  /\ [][(HealthStep
           /\ time_since_last_watchdog(state, now) <= watchdog_timeout) =>
          /\ state'.status = state.status
          /\ health_status(state').is_healthy = (state.status = "ok")]_vars

\* C20: no heartbeat submission raises: every call of the submission
\* operation returns (accepted, reason).
C20_NeverRaises == [][~SubmitStep({"raise"})]_vars


\* ------------------------------------------------- failures of a save
\* positions inside _save_state_with_lock and repository.save
SavePcs == {"sv_open", "sv_flock", "sv_tmp", "sv_replace", "sv_close",
            "rs_tmp", "rs_replace"}

\* FileWatchdogRepository.save, lines 74-81: a step of the try block raised
\* (the temporary file could not be written, or os.replace failed); the
\* temporary file is removed and save returns False.  Inside
\* _save_state_with_lock the with block then ends as after a success.
SaveFail(t) ==
  /\ pc[t] \in {"sv_tmp", "sv_replace", "rs_tmp", "rs_replace"}
  /\ tmp' = <<>>
  /\ IF pc[t] \in {"sv_tmp", "sv_replace"}
       THEN /\ pc' = [pc EXCEPT ![t] = "sv_close"]
            /\ UNCHANGED <<state_lock, op, was_in_alert>>
       ELSE Release(t)
  /\ UNCHANGED <<clockVars, file, file_mtime, svcVars, fdVars, startup_time,
                 sent, submitted>>
  /\ UNCHANGED <<edges, alert_sent_at, peer, hostVars>>

\* The process is killed at any point and started again: create_app loads
\* the record that the killed process left behind.
CrashRestart ==
  /\ state' = load_existing(file)
  /\ last_check_time' = Unset
  /\ last_file_mtime' = Unset
  /\ state_lock' = "none"
  /\ pc' = [t \in Threads |-> IF t = Monitor THEN "top" ELSE "idle"]
  /\ op' = [t \in Threads |-> "none"]
  /\ was_in_alert' = FALSE
  /\ fd' = [t \in Threads |-> "none"]
  /\ flk' = [t \in Threads |-> FALSE]
  /\ shared' = FALSE
  /\ startup_time' = now
  /\ UNCHANGED <<clockVars, fileVars, sent, submitted>>
  /\ alert_sent_at' = Unset
  /\ watchdog_monitor' = [watchdog_monitor EXCEPT !.wake_at = 0]
  /\ UNCHANGED <<edges, peer, instance, probes, notifier, detailed>>

\* runs in which a save can fail and the process can be killed
NextFaults ==
  \/ Next
  \/ \E t \in Threads : SaveFail(t)
  \/ CrashRestart

SpecFaults == Init /\ [][NextFaults]_vars

\* a thread is between the start and the end of a save
SaveInProgress == \E t \in Threads : pc[t] \in SavePcs

\* C14: a save that fails or is interrupted never leaves the durable record
\* truncated: whenever no save is in progress the record holds a complete
\* state, and the load of a restarted process finds a complete state.
C14_RecordNeverTruncated ==
  /\ [](~SaveInProgress => file # <<>>)
  /\ [][CrashRestart => file # <<>>]_vars


\* ------------------------------------------- a second service process
\* Another process of the same application on the same data directory accepts
\* a valid heartbeat: process_watchdog_alert from its start to its end, with
\* its own state and its own refresh attributes.  It runs while no thread of
\* the first process has the record open or a temporary file written, so its
\* flock is granted at once and its save is the only one under way.  Its
\* messages are not counted in sent.
peer_checks ==
  peer.last_check_time = Unset \/ now - peer.last_check_time > RefreshCacheSecs
peer_loads ==
  /\ peer_checks
  /\ peer.last_file_mtime = Unset \/ file_mtime > peer.last_file_mtime
peer_refreshed == IF peer_loads THEN load_existing(file) ELSE peer.state

PeerHeartbeat ==
  /\ peer.accepted < MaxPeerSubmits
  /\ \A t \in Threads : fd[t] = "none"
  /\ tmp = <<>>
  /\ LET counted == [peer_refreshed EXCEPT !.total_received = @ + 1]
         accepted == record_watchdog_alert(counted, GoodAlert, now)
     IN /\ peer' = [state |-> accepted,
                    last_check_time |-> IF peer_checks THEN now
                                        ELSE peer.last_check_time,
                    last_file_mtime |-> now,
                    accepted |-> peer.accepted + 1]
        /\ file' = <<to_dict(accepted)>>
        /\ file_mtime' = now
  /\ UNCHANGED <<clockVars, tmp, svcVars, state_lock, pc, op, was_in_alert,
                 fdVars, startup_time, sent, submitted, edges, alert_sent_at,
                 hostVars>>

\* runs of two processes that receive valid heartbeats only
NextProcesses ==
  \/ \E d \in TickSteps : Tick(d)
  \/ \E h \in Handlers, p \in ValidPayloads : process_watchdog_alert(h, p)
  \/ \E h \in Handlers : SaveOpen(h)
  \/ \E h \in Handlers : SaveTmp(h)
  \/ \E h \in Handlers : SaveReplace(h)
  \/ \E h \in Handlers : SaveClose(h)
  \/ PeerHeartbeat

SpecProcesses == InitFresh /\ [][NextProcesses]_vars

\* C15: with two processes on one durable record no update is lost: whenever
\* no save is in progress, total_received of the record has grown by the
\* number of valid heartbeats the two processes have accepted.
C15_NoLostUpdate ==
  (~SaveInProgress /\ file # <<>>) =>
     file[1].total_received = submitted + peer.accepted


\* ------------------------------------------- the repository on its own
\* FileWatchdogRepository used by one caller, one call after the other.  No
\* file at the path is file = <<>> with file_mtime = Unset; a file of zero
\* bytes (not a JSON document) is file = <<>> with a modification time.
Caller == "h1"

RepoCounters == {<<0, 0>>, <<1, 0>>, <<2, 1>>}

\* the states a caller can hand to save
RepoStates(t) ==
  { [ last_watchdog_time |-> a,
      last_watchdog_details |-> d,
      status |-> st,
      total_received |-> c[1],
      invalid_received |-> c[2],
      last_status_notification |-> b,
      last_alert_notification |-> l ] :
    a \in {0, t}, d \in {<<>>, <<expected_alertname>>},
    st \in {"initializing", "waiting_for_first_alert", "ok", "alert"},
    c \in RepoCounters, b \in {0, t}, l \in {0, t} }

\* FileWatchdogRepository.load, lines 27-55
repo_load(content, mtime, t) ==
  IF mtime = Unset THEN load_fresh(t) ELSE load_existing(content)

\* which branch of load runs
load_branch(content, mtime) ==
  IF mtime = Unset THEN "load_fresh"
  ELSE IF content = <<>> THEN "load_corrupt" ELSE "load_existing"

\* variant that leaves the temporary file behind
tmp_after_failure_keep(t, removed) == t

\* save, lines 76-80: the temporary file after the except branch; os.remove
\* can fail, and the failure is passed over
tmp_after_failure(t, removed) == IF removed THEN <<>> ELSE t

InitRepository ==
  /\ now \in StartTimes
  /\ ticks = 0
  /\ state \in RepoStates(now)
  /\ file = <<>>
  /\ file_mtime \in {Unset, now}
  /\ tmp = <<>>
  /\ last_check_time = Unset
  /\ last_file_mtime = Unset
  /\ state_lock = "none"
  /\ pc = [t \in Threads |-> IF t = Monitor THEN "top" ELSE "idle"]
  /\ op = [t \in Threads |-> "none"]
  /\ was_in_alert = FALSE
  /\ fd = [t \in Threads |-> "none"]
  /\ flk = [t \in Threads |-> FALSE]
  /\ shared = FALSE
  /\ startup_time = now
  /\ sent = [alert |-> 0, repeated |-> 0, recovery |-> 0, status |-> 0]
  /\ submitted = 0
  /\ edges = 0
  /\ alert_sent_at = Unset
  /\ peer = [state |-> DefaultState, last_check_time |-> Unset,
             last_file_mtime |-> Unset, accepted |-> 0]
  /\ HostRunning

repoFrame ==
  <<last_check_time, last_file_mtime, state_lock, was_in_alert, fdVars,
    startup_time, sent, submitted, edges, alert_sent_at, peer, hostVars>>

\* what a caller does to its state before it saves it
CallerEdits(s, t) ==
  {s, set_alert_status(s), record_watchdog_alert(s, GoodAlert, t)}

\* save(s) is called, s being the state the caller holds from now on
RepoSave(s) ==
  /\ pc[Caller] = "idle"
  /\ state' = s
  /\ pc' = [pc EXCEPT ![Caller] = "sa_tmp"]
  /\ op' = [op EXCEPT ![Caller] = "save"]
  /\ UNCHANGED <<clockVars, fileVars, repoFrame>>

\* lines 64-67: the document is written to the temporary file
RepoSaveWrite ==
  /\ pc[Caller] = "sa_tmp"
  /\ tmp' = <<[data |-> to_dict(state), mtime |-> now]>>
  /\ pc' = [pc EXCEPT ![Caller] = "sa_replace"]
  /\ UNCHANGED <<clockVars, file, file_mtime, state, op, repoFrame>>

\* lines 70-73: os.replace, return True
RepoSaveReplace ==
  /\ pc[Caller] = "sa_replace"
  /\ file' = Replaced
  /\ file_mtime' = ReplacedMtime
  /\ tmp' = <<>>
  /\ pc' = [pc EXCEPT ![Caller] = "idle"]
  /\ op' = [op EXCEPT ![Caller] = "save_true"]
  /\ UNCHANGED <<clockVars, state, repoFrame>>

\* lines 74-81: a step of the try block raises (before or after the temporary
\* file is written); the except branch removes the temporary file if it can
\* and returns False
RepoSaveFail(removed) ==
  /\ pc[Caller] \in {"sa_tmp", "sa_replace"}
  /\ tmp' = tmp_after_failure(tmp, removed)
  /\ pc' = [pc EXCEPT ![Caller] = "idle"]
  /\ op' = [op EXCEPT ![Caller] = "save_false"]
  /\ UNCHANGED <<clockVars, file, file_mtime, state, repoFrame>>

\* load(): the caller takes the state it returns; when there is no file the
\* synthesized state is saved (line 53)
RepoLoad ==
  /\ pc[Caller] = "idle"
  /\ state' = repo_load(file, file_mtime, now)
  /\ op' = [op EXCEPT ![Caller] = load_branch(file, file_mtime)]
  /\ IF file_mtime = Unset
       THEN /\ file' = <<to_dict(state')>>
            /\ file_mtime' = now
            /\ tmp' = <<>>
       ELSE UNCHANGED fileVars
  /\ UNCHANGED <<clockVars, pc, repoFrame>>

RepoTick ==
  /\ \E d \in TickSteps : Tick(d)
  /\ pc[Caller] = "idle"

NextRepository ==
  \/ \E s \in CallerEdits(state, now) : RepoSave(s)
  \/ RepoSaveWrite
  \/ RepoSaveReplace
  \/ \E removed \in BOOLEAN : RepoSaveFail(removed)
  \/ RepoLoad
  \/ RepoTick

SpecRepository == InitRepository /\ [][NextRepository]_vars

\* C16: save(state) followed by load() returns a state equal to the saved
\* one in every field.
C16_RoundTrip ==
  [][(RepoLoad /\ op[Caller] = "save_true") => state' = state]_vars

\* C16 happens: a state with status alert and counted heartbeats came back
\* from the record it was saved to.
C16_Witness ==
  /\ op[Caller] = "load_existing"
  /\ state.status = "alert"
  /\ state.total_received = 2
  /\ state.last_watchdog_time > 0
  /\ file = <<to_dict(state)>>

C19_FailedSave ==
  [][\A removed \in BOOLEAN : RepoSaveFail(removed) =>
        /\ pc'[Caller] = "idle" /\ op'[Caller] = "save_false"
        /\ file' = file /\ file_mtime' = file_mtime
        /\ removed => tmp' = <<>>]_vars

\* C19 happens: the save of another state has failed after the temporary
\* file was written, and the record still holds the state saved before.
C19_Witness ==
  /\ op[Caller] = "save_false"
  /\ tmp = <<>>
  /\ file # <<>>
  /\ file[1] # to_dict(state)


\* ------------------------------------------- format of a heartbeat
\* a payload holds a list of one or more alerts
HasAlertBatch(p) == p.hasalerts /\ p.alertslist /\ Len(p.alerts) > 0

\* a payload holds the labels of an alert itself
HasDirectLabels(p) == p.self.haslabels

\* a mapping payload p is submitted by some handler
SubmitOf(p) == p.kind = "dict" /\ \E h \in Handlers : process_watchdog_alert(h, p)

\* C21: a mapping payload passes the format validation if and only if it
\* holds a non-empty list of alerts or holds the alert labels itself; the
\* alert inspected is the first of the batch or the payload itself, and the
\* heartbeat is accepted exactly when that alert's name is the expected one.
C21_FormatRule ==
  [][\A p \in Payloads :
       SubmitOf(p) =>
         /\ (Outcome(p) # "invalid_format")
               <=> (HasAlertBatch(p) \/ HasDirectLabels(p))
         /\ (Outcome(p) # "invalid_format") =>
               ((Outcome(p) = "accepted")
                  <=> /\ ~alertname_raises(InspectedAlert(p))
                      /\ alertname_of(InspectedAlert(p)) = expected_alertname)]_vars


\* ------------------------------------------------ start of the monitor
MaxStarts == 4

serviceVars ==
  <<now, ticks, file, file_mtime, tmp, state, last_check_time,
    last_file_mtime, state_lock, pc, op, was_in_alert, fd, flk, shared,
    startup_time, sent, submitted, edges, alert_sent_at, peer>>

\* The monitor object is built and not started; the process runs standalone
\* (create_app, app/__init__.py line 44) or under gunicorn
\* (gunicorn_config.py line 84).
InitStart ==
  /\ InitService
  /\ state = load_fresh(now)
  /\ \E g \in BOOLEAN : watchdog_monitor = [NewMonitor EXCEPT !.gunicorn = g]
  /\ instance = [made |-> TRUE, repository |-> TRUE, notifier |-> TRUE,
                 config |-> TRUE, loaded |-> TRUE, initialized |-> 1]
  /\ probes = [startup_time |-> now, monitor_thread_detected |-> FALSE,
               answer |-> <<>>]
  /\ detailed = NoQuery
  /\ notifier = IdleNotifier(<<>>)

startFrame == <<serviceVars, instance, probes, notifier, detailed>>

\* line 20: the thread of the monitor is set and alive
thread_is_alive(m) == m.thread # 0 /\ m.thread \in m.alive

\* start, lines 20-22: the test of self.thread
StartCheck(c) ==
  /\ ~watchdog_monitor.gunicorn
  /\ watchdog_monitor.pc[c] = "idle"
  /\ watchdog_monitor.calls < MaxStarts
  /\ watchdog_monitor' =
       [watchdog_monitor EXCEPT
          !.calls = @ + 1,
          !.pc[c] = IF thread_is_alive(watchdog_monitor) THEN "idle"
                    ELSE "create"]
  /\ UNCHANGED startFrame

\* start, line 24: self.thread = threading.Thread(...)
StartCreate(c) ==
  /\ watchdog_monitor.pc[c] = "create"
  /\ watchdog_monitor' =
       [watchdog_monitor EXCEPT !.created = @ + 1, !.thread = watchdog_monitor.created + 1,
                                !.pc[c] = "run"]
  /\ UNCHANGED startFrame

\* start, line 25: self.thread.start(), on the thread self.thread is now;
\* Thread.start raises RuntimeError on a thread that was started before
StartRun(c) ==
  /\ watchdog_monitor.pc[c] = "run"
  /\ watchdog_monitor' =
       [watchdog_monitor EXCEPT !.alive = @ \cup {watchdog_monitor.thread},
                                !.pc[c] = "idle"]
  /\ UNCHANGED startFrame

\* when_ready, lines 92-126, called by the arbiter of gunicorn: with the flag
\* unset it builds a monitor of its own, starts it and sets the flag
when_ready ==
  /\ watchdog_monitor.gunicorn
  /\ watchdog_monitor.calls < MaxStarts
  /\ watchdog_monitor' =
       IF watchdog_monitor.monitor_thread_started
         THEN [watchdog_monitor EXCEPT !.calls = @ + 1]
         ELSE [watchdog_monitor EXCEPT
                 !.calls = @ + 1,
                 !.created = @ + 1,
                 !.thread = watchdog_monitor.created + 1,
                 !.alive = @ \cup {watchdog_monitor.created + 1},
                 !.monitor_thread_started = TRUE]
  /\ UNCHANGED startFrame

NextStart ==
  \/ \E c \in Starters : StartCheck(c)
  \/ \E c \in Starters : StartCreate(c)
  \/ \E c \in Starters : StartRun(c)
  \/ when_ready

SpecStart == InitStart /\ [][NextStart]_vars

\* C22: starting the monitor is idempotent: after any sequence or
\* interleaving of start calls and calls of the when_ready hook at most one
\* monitor loop runs, and a start call made while the loop is alive creates
\* no thread.
C22_StartIdempotent ==
  [][/\ Cardinality(watchdog_monitor'.alive) <= 1
     /\ \A c \in Starters :
          (StartCheck(c) /\ thread_is_alive(watchdog_monitor)) =>
             /\ watchdog_monitor'.created = watchdog_monitor.created
             /\ watchdog_monitor'.pc[c] = "idle"]_vars


\* ---------------------------------------------- the startup grace window
\* less than the timeout has passed since the monitor loop was entered
InGraceWindow == now - startup_time < watchdog_timeout

\* C23: as long as less than the timeout has passed since the loop was
\* entered, an iteration of the monitor skips the evaluation: it changes no
\* state of the service, takes no lock, persists nothing, dispatches nothing
\* and sleeps 30 time units, and the monitor does nothing else in the window.
C23_GraceSkips ==
  [][(InGraceWindow /\ pc'[Monitor] # pc[Monitor]) =>
       /\ \/ /\ pc[Monitor] = "top" /\ pc'[Monitor] = "grace"
             /\ watchdog_monitor'.wake_at = now + 30
          \/ /\ pc[Monitor] = "grace" /\ pc'[Monitor] = "top"
             /\ now >= watchdog_monitor.wake_at
       /\ UNCHANGED <<svcVars, fileVars, fdVars, state_lock, sent, op>>]_vars

\* the monitor sleeps in the grace window
C23_Witness ==
  /\ InGraceWindow
  /\ pc[Monitor] = "grace"
  /\ watchdog_monitor.wake_at = now + 30


\* ------------------------------------------------ the daily status message
\* the three conditions of a daily status message, on the state s at time t
StatusDue(s, t) ==
  /\ t - s.last_watchdog_time <= watchdog_timeout
  /\ s.status = "ok"
  /\ t - s.last_status_notification >= DailyStatusSecs

\* C24: an iteration of the monitor decides to stamp last_status_notification
\* and to dispatch one status message if and only if the heartbeat is within
\* the timeout, the status is ok and the last status message is at least a
\* day old; hence two status messages are never less than a day apart (the
\* clock of a run spans far less than a day, so a run has at most one).
C24_DailyStatus ==
  [][/\ MonitorRead => ((op'[Monitor] = "status") <=> StatusDue(state', now))
     /\ (MonitorNotify /\ op[Monitor] = "status") => sent.status = 0]_vars


\* ------------------------------------- the monitor loop from its entry
\* The service of these runs may not have been initialized: instance.loaded
\* is false while WatchdogService.state is None (state then holds the
\* default state as a placeholder that nothing reads).  A record may or may
\* not exist on disk (file_mtime is Unset when it does not).
InitMonitor ==
  /\ now \in StartTimes
  /\ ticks = 0
  /\ \E l \in BOOLEAN, f \in BOOLEAN :
       /\ instance = [made |-> TRUE, repository |-> TRUE, notifier |-> TRUE,
                      config |-> TRUE, loaded |-> l,
                      initialized |-> IF l THEN 1 ELSE 0]
       /\ state = IF l THEN (IF f THEN load_existing(<<to_dict(ExistingRecord(now))>>)
                                  ELSE load_fresh(now))
                   ELSE DefaultState
       /\ file = IF l THEN <<to_dict(state)>>
                  ELSE IF f THEN <<to_dict(ExistingRecord(now))>> ELSE <<>>
       /\ file_mtime = IF l \/ f THEN now ELSE Unset
  /\ tmp = <<>>
  /\ last_check_time = Unset
  /\ last_file_mtime = Unset
  /\ state_lock = "none"
  /\ pc = [t \in Threads |-> IF t = Monitor THEN "entry" ELSE "idle"]
  /\ op = [t \in Threads |-> "none"]
  /\ was_in_alert = FALSE
  /\ fd = [t \in Threads |-> "none"]
  /\ flk = [t \in Threads |-> FALSE]
  /\ shared = FALSE
  /\ startup_time = 0
  /\ sent = [alert |-> 0, repeated |-> 0, recovery |-> 0, status |-> 0]
  /\ submitted = 0
  /\ edges = 0
  /\ alert_sent_at = Unset
  /\ peer = [state |-> DefaultState, last_check_time |-> Unset,
             last_file_mtime |-> Unset, accepted |-> 0]
  /\ watchdog_monitor = [NewMonitor EXCEPT !.thread = 1, !.alive = {1},
                                           !.created = 1]
  /\ probes = [startup_time |-> now, monitor_thread_detected |-> FALSE,
               answer |-> <<>>]
  /\ detailed = NoQuery
  /\ notifier = IdleNotifier(<<>>)

\* lines 28-37: the thread enters _run_monitor and takes its startup time;
\* nothing here looks at service.state
MonitorEntry ==
  /\ pc[Monitor] = "entry"
  /\ startup_time' = now
  /\ pc' = [pc EXCEPT ![Monitor] = "top"]
  /\ UNCHANGED <<clockVars, fileVars, svcVars, state_lock, op, was_in_alert,
                 fdVars, sent, submitted>>
  /\ UNCHANGED <<edges, alert_sent_at, peer, hostVars>>

\* variant in which the exception leaves the loop
after_error_propagates(p) == "dead"

\* lines 129-131: except Exception: log, sleep(5), next iteration
after_error(p) == "backoff"

\* lines 54-60 with service.state None: the refresh loads the record if one
\* exists (watchdog_service.py line 155); otherwise line 57 raises
\* AttributeError, the with statement releases the lock
MonitorReadUnloaded ==
  /\ pc[Monitor] = "top"
  /\ ~in_grace(now)
  /\ state_lock = "none"
  /\ ~instance.loaded
  /\ last_check_time' = refreshed_check_time(now)
  /\ IF file_mtime # Unset /\ refresh_loads(now)
       THEN /\ state' = load_existing(file)
            /\ last_file_mtime' = file_mtime
            /\ instance' = [instance EXCEPT !.loaded = TRUE]
            /\ LET d == monitor_decision(state', now)
               IN /\ op' = [op EXCEPT ![Monitor] = d]
                  /\ pc' = [pc EXCEPT ![Monitor] =
                                      IF d = "none" THEN "top" ELSE "write"]
       ELSE /\ pc' = [pc EXCEPT ![Monitor] = after_error(pc[Monitor])]
            /\ UNCHANGED <<state, last_file_mtime, instance, op>>
  /\ UNCHANGED <<clockVars, fileVars, state_lock, was_in_alert, fdVars,
                 startup_time, sent, submitted>>
  /\ UNCHANGED <<edges, alert_sent_at, peer, watchdog_monitor, probes,
                 notifier, detailed>>

\* lines 89, 105, 121: the call of the notifier raises (building the message
\* is outside the try of notify_all)
MonitorNotifyRaises ==
  /\ pc[Monitor] = "notify"
  /\ pc' = [pc EXCEPT ![Monitor] = after_error(pc[Monitor])]
  /\ op' = [op EXCEPT ![Monitor] = "none"]
  /\ UNCHANGED <<clockVars, fileVars, svcVars, state_lock, was_in_alert,
                 fdVars, startup_time, sent, submitted>>
  /\ UNCHANGED <<edges, alert_sent_at, peer, hostVars>>

\* line 131: the sleep of 5 is over, the loop goes on at line 40
MonitorBackoff ==
  /\ pc[Monitor] = "backoff"
  /\ pc' = [pc EXCEPT ![Monitor] = "top"]
  /\ UNCHANGED <<clockVars, fileVars, svcVars, state_lock, op, was_in_alert,
                 fdVars, startup_time, sent, submitted>>
  /\ UNCHANGED <<edges, alert_sent_at, peer, hostVars>>

MonitorLoopStep ==
  \/ MonitorEntry
  \/ MonitorGrace
  \/ MonitorWake
  \/ instance.loaded /\ MonitorRead
  \/ MonitorReadUnloaded
  \/ MonitorWrite
  \/ SaveOpen(Monitor)
  \/ SaveTmp(Monitor)
  \/ SaveReplace(Monitor)
  \/ SaveClose(Monitor)
  \/ MonitorNotify
  \/ MonitorNotifyRaises
  \/ MonitorBackoff

NextMonitor ==
  \/ \E d \in TickSteps : Tick(d)
  \/ MonitorLoopStep

SpecMonitor == InitMonitor /\ [][NextMonitor]_vars

\* The loop is the only thread of these runs and never waits for another
\* one: it takes every step it can take.
FairSpecMonitor == SpecMonitor /\ WF_vars(MonitorLoopStep)

\* C25: the monitor loop never ends because of an error: an exception in an
\* iteration is caught, the loop sleeps and then begins its next iteration,
\* where it evaluates the timeout again.
C25_LoopSurvivesErrors ==
  /\ [][/\ pc'[Monitor] # "dead"
        /\ (pc[Monitor] = "backoff" /\ pc'[Monitor] # "backoff") =>
             pc'[Monitor] = "top"]_vars
  /\ (pc[Monitor] = "backoff") ~> (pc[Monitor] = "top")

\* an exception was caught: the loop is in its sleep of 5
C25_Witness == pc[Monitor] = "backoff"

\* C26: when the loop is entered it makes sure the service has a loaded
\* state: if there is none it calls initialize, once, before any evaluation.
C26_InitializesOnEntry ==
  [][(pc[Monitor] = "entry" /\ pc'[Monitor] # "entry") =>
       /\ instance'.loaded
       /\ instance'.initialized =
            instance.initialized + (IF instance.loaded THEN 0 ELSE 1)]_vars


\* ------------------------------------- construction and the probes
MaxProbeTicks == 4

\* steps of the clock that put the uptime on both sides of 30, 60 and 300
ProbeSteps == {1, 30, 270}

StartupGraceSecs == 30
InitializingSecs == 60
FallbackSecs == 300

\* records a process can find on disk: none of a previous run (written by
\* the first load), one with status ok, one with status alert, an unreadable
\* one
ProbeRecords(t) ==
  { <<to_dict(load_fresh(t))>>, <<to_dict(ExistingRecord(t))>>,
    <<to_dict(set_alert_status(ExistingRecord(t)))>>, <<>> }

\* The process starts: no singleton yet; KubernetesProbes.__init__ (lines
\* 13-19) takes the startup time.
InitProbes ==
  /\ now \in StartTimes
  /\ ticks = 0
  /\ state = DefaultState
  /\ file \in ProbeRecords(now)
  /\ file_mtime = now
  /\ tmp = <<>>
  /\ last_check_time = Unset
  /\ last_file_mtime = Unset
  /\ state_lock = "none"
  /\ pc = [t \in Threads |-> IF t = Monitor THEN "entry" ELSE "idle"]
  /\ op = [t \in Threads |-> "none"]
  /\ was_in_alert = FALSE
  /\ fd = [t \in Threads |-> "none"]
  /\ flk = [t \in Threads |-> FALSE]
  /\ shared = FALSE
  /\ startup_time = 0
  /\ sent = [alert |-> 0, repeated |-> 0, recovery |-> 0, status |-> 0]
  /\ submitted = 0
  /\ edges = 0
  /\ alert_sent_at = Unset
  /\ peer = [state |-> DefaultState, last_check_time |-> Unset,
             last_file_mtime |-> Unset, accepted |-> 0]
  /\ watchdog_monitor = NewMonitor
  /\ instance = [made |-> FALSE, repository |-> FALSE, notifier |-> FALSE,
                 config |-> FALSE, loaded |-> FALSE, initialized |-> 0]
  /\ probes = [startup_time |-> now, monitor_thread_detected |-> FALSE,
               answer |-> <<>>]
  /\ detailed = NoQuery
  /\ notifier = IdleNotifier(<<>>)

probeFrame ==
  <<file, file_mtime, tmp, last_check_time, last_file_mtime, state_lock, pc,
    op, was_in_alert, fdVars, startup_time, sent, submitted, edges,
    alert_sent_at, peer, watchdog_monitor, notifier, detailed>>

ProbeTick(d) ==
  /\ ticks < MaxProbeTicks
  /\ now' = now + d
  /\ ticks' = ticks + 1
  /\ UNCHANGED <<state, instance, probes, probeFrame>>

\* WatchdogService.get_instance(repository, notifier, config), lines 17-31:
\* r, n, c tell which collaborators are given (not None); the first call
\* builds the singleton with whatever it is given, __init__ tests nothing
get_instance(r, n, c) ==
  /\ instance' = IF instance.made THEN instance
                  ELSE [instance EXCEPT !.made = TRUE, !.repository = r,
                                        !.notifier = n, !.config = c]
  /\ UNCHANGED <<clockVars, state, probes, probeFrame>>

\* WatchdogService.initialize, lines 33-38; without a repository line 36
\* raises AttributeError and the state stays None; create_app and when_ready
\* call it once
initialize ==
  /\ instance.made
  /\ instance.initialized = 0
  /\ instance' = [instance EXCEPT !.loaded = instance.repository,
                                  !.initialized = @ + 1]
  /\ state' = IF instance.repository THEN load_existing(file) ELSE state
  /\ UNCHANGED <<clockVars, probes, probeFrame>>

\* check_liveness, lines 29-46
check_liveness(inst) ==
  IF ~inst.loaded THEN [ok |-> FALSE, reason |-> "Service not initialized"]
  ELSE IF ~inst.repository
    THEN [ok |-> FALSE, reason |-> "Repository not available"]
  ELSE IF ~inst.config
    THEN [ok |-> FALSE, reason |-> "Configuration not available"]
  ELSE [ok |-> TRUE, reason |-> "Service is alive"]

\* is_monitor_thread_running, lines 48-85: named tells that the name of some
\* thread holds one of the patterns, enough that the process has two threads
\* or more; seen is monitor_thread_detected
monitor_thread_found(inst, s, named, enough) ==
  named \/ (enough /\ inst.loaded /\ s.last_watchdog_time > 0)

is_monitor_thread_running(inst, s, seen, named, enough) ==
  monitor_thread_found(inst, s, named, enough) \/ (seen /\ enough)

\* variant that does not look at the status in the fallback
fallback_allows_any_status(s, up) == up > FallbackSecs

\* lines 130-133: the fallback when no monitor thread is found
fallback_allows(s, up) == up > FallbackSecs /\ s.status \in {"ok", "alert"}

\* variant without the test of a stuck initializing status
stuck_initializing_never(s, up) == FALSE

\* lines 141-145
stuck_initializing(s, up) == s.status = "initializing" /\ up > InitializingSecs

\* check_readiness, lines 95-158, at uptime up
check_readiness(inst, s, up, seen, named, enough) ==
  IF ~check_liveness(inst).ok
    THEN [ok |-> FALSE, reason |-> "Not ready: liveness"]
  ELSE IF up < StartupGraceSecs
    THEN [ok |-> FALSE, reason |-> "Service still in startup phase"]
  ELSE IF /\ up > StartupGraceSecs
          /\ ~is_monitor_thread_running(inst, s, seen, named, enough)
          /\ ~fallback_allows(s, up)
    THEN [ok |-> FALSE, reason |-> "Not ready: Watchdog monitor thread not running"]
  ELSE IF stuck_initializing(s, up)
    THEN [ok |-> FALSE, reason |-> "Service stuck in initializing state"]
  ELSE [ok |-> TRUE, reason |-> "Service is ready to receive traffic"]

\* GET /probe/liveness
LivenessProbe ==
  /\ instance.made
  /\ probes' = [probes EXCEPT !.answer = <<check_liveness(instance)>>]
  /\ UNCHANGED <<clockVars, state, instance, probeFrame>>

\* GET /probe/readiness; the with statement of line 149 waits for the lock
ReadinessProbe(named, enough) ==
  /\ instance.made
  /\ state_lock = "none"
  /\ LET up == now - probes.startup_time
         seen == probes.monitor_thread_detected
         ran == check_liveness(instance).ok /\ up > StartupGraceSecs
     IN probes' =
          [probes EXCEPT
             !.answer = <<check_readiness(instance, state, up, seen, named,
                                          enough)>>,
             !.monitor_thread_detected =
                @ \/ (ran /\ monitor_thread_found(instance, state, named,
                                                  enough))]
  /\ UNCHANGED <<clockVars, state, instance, probeFrame>>

NextProbes ==
  \/ \E d \in ProbeSteps : ProbeTick(d)
  \/ \E r \in BOOLEAN, n \in BOOLEAN, c \in BOOLEAN : get_instance(r, n, c)
  \/ initialize
  \/ LivenessProbe
  \/ \E named \in BOOLEAN, enough \in BOOLEAN : ReadinessProbe(named, enough)

SpecProbes == InitProbes /\ [][NextProbes]_vars


\* time since the probes were built
Uptime == now - probes.startup_time

\* the state is loaded, the store and the configuration are there
LiveOK == instance.loaded /\ instance.repository /\ instance.config

ReadinessStep ==
  \E named \in BOOLEAN, enough \in BOOLEAN : ReadinessProbe(named, enough)

MonitorReason == "Not ready: Watchdog monitor thread not running"

C28_FallbackWindow ==
  [][\A named \in BOOLEAN, enough \in BOOLEAN :
       ( /\ ReadinessProbe(named, enough)
         /\ LiveOK
         /\ Uptime > 30
         /\ ~is_monitor_thread_running(instance, state,
                                       probes.monitor_thread_detected,
                                       named, enough) ) =>
       LET a == probes'.answer[1]
       IN /\ a.ok <=> (Uptime > 300 /\ state.status \in {"ok", "alert"})
          /\ ~a.ok => a.reason = MonitorReason]_vars

\* readiness was granted although no monitor thread was ever found
C28_Witness ==
  /\ probes.answer # <<>>
  /\ probes.answer[1].ok
  /\ probes.answer[1].reason = "Service is ready to receive traffic"
  /\ ~probes.monitor_thread_detected
  /\ Uptime > 300
  /\ state.status \in {"ok", "alert"}


\* C30: building the service singleton with a missing collaborator (store,
\* dispatcher or configuration) fails at once: no singleton is made.
C30_FailFast ==
  [][\A r \in BOOLEAN, n \in BOOLEAN, c \in BOOLEAN :
       (get_instance(r, n, c) /\ ~instance.made /\ ~(r /\ n /\ c)) =>
          ~instance'.made]_vars


\* ------------------------------------------------------------ notify_all
MaxProviders == 3

SendOutcomes == {"ok", "fail", "raise"}

ProviderLists ==
  UNION {[1..n -> SendOutcomes] : n \in 0..MaxProviders}

InitNotifier ==
  /\ InitService
  /\ state = load_fresh(now)
  /\ watchdog_monitor = [NewMonitor EXCEPT !.thread = 1, !.alive = {1},
                                           !.created = 1]
  /\ instance = [made |-> TRUE, repository |-> TRUE, notifier |-> TRUE,
                 config |-> TRUE, loaded |-> TRUE, initialized |-> 1]
  /\ probes = [startup_time |-> now, monitor_thread_detected |-> FALSE,
               answer |-> <<>>]
  /\ detailed = NoQuery
  /\ \E ps \in ProviderLists : notifier = IdleNotifier(ps)

notifyFrame == <<serviceVars, watchdog_monitor, instance, probes, detailed>>

\* lines 23-27: without providers the call returns False
NotifyBegin ==
  /\ notifier.result = "none"
  /\ notifier.i = 0
  /\ notifier' = IF notifier.providers = <<>>
                    THEN [notifier EXCEPT !.result = "False"]
                    ELSE [notifier EXCEPT !.i = 1]
  /\ UNCHANGED notifyFrame

\* variant that keeps the answer of the last provider only
success_after_send_last(success, outcome) == outcome = "ok"

\* lines 29-33: success after one provider; an exception of send is caught
success_after_send(success, outcome) == success \/ outcome = "ok"

\* lines 28-33: one turn of the loop
NotifySend ==
  /\ notifier.result = "none"
  /\ notifier.i \in 1..Len(notifier.providers)
  /\ notifier' =
       [notifier EXCEPT
          !.success = success_after_send(@, notifier.providers[notifier.i]),
          !.tried = @ + 1,
          !.i = @ + 1]
  /\ UNCHANGED notifyFrame

\* line 35
NotifyReturn ==
  /\ notifier.result = "none"
  /\ notifier.i = Len(notifier.providers) + 1
  /\ notifier' = [notifier EXCEPT
                    !.result = IF notifier.success THEN "True" ELSE "False"]
  /\ UNCHANGED notifyFrame

NextNotifier == NotifyBegin \/ NotifySend \/ NotifyReturn

SpecNotifier == InitNotifier /\ [][NextNotifier]_vars

\* C29: a dispatch returns true if and only if at least one registered
\* channel reported success; a channel that fails or raises does not keep the
\* others from being tried, and nothing is raised to the caller; without
\* channels the dispatch returns false.
C29_DispatchIsolation ==
  notifier.result # "none" =>
    /\ notifier.result \in {"True", "False"}
    /\ (notifier.result = "True")
          <=> (\E k \in 1..Len(notifier.providers) :
                 notifier.providers[k] = "ok")
    /\ notifier.tried = Len(notifier.providers)
    /\ notifier.providers = <<>> => notifier.result = "False"

\* a channel raised, a later one succeeded, and the dispatch returned true
C29_Witness ==
  /\ notifier.providers = <<"raise", "ok", "fail">>
  /\ notifier.result = "True"
  /\ notifier.tried = 3


\* ------------------------------------------------- the two locks
\* thread t takes a step that writes the record or its temporary file
Writes(t) == pc'[t] # pc[t] /\ (file' # file \/ tmp' # tmp)

\* C31: every write of the durable record (by a heartbeat handler on its
\* valid or invalid path, by a health query or by the monitor) is made while
\* the writer holds the in-process lock and the file lock; the in-process
\* lock is taken first and the file lock is released first.
C31_WritesUnderBothLocks ==
  [][\A t \in Threads :
       /\ Writes(t) => (state_lock = t /\ flk[t])
       /\ (flk'[t] /\ ~flk[t]) => state_lock = t
       /\ (state_lock = t /\ state_lock' # t) => ~flk[t]]_vars


\* ------------------------------------- exceptions while a lock is held
\* lines 82-88: send_recovery raises inside the with block (the message is
\* built outside the try of notify_all); the with statement releases
\* state_lock and the exception leaves process_watchdog_alert
NotifyRecoveryRaises(h) ==
  /\ h \in Handlers
  /\ pc[h] = "notify"
  /\ Release(h)
  /\ UNCHANGED <<clockVars, fileVars, svcVars, fdVars, startup_time, sent,
                 submitted>>
  /\ UNCHANGED <<edges, alert_sent_at, peer, hostVars>>

\* runs in which a save, a dispatch or line 66 can raise
NextExceptions ==
  \/ Next
  \/ \E t \in Threads : SaveFail(t)
  \/ \E h \in Handlers : NotifyRecoveryRaises(h)
  \/ MonitorNotifyRaises
  \/ MonitorBackoff

SpecExceptions == Init /\ [][NextExceptions]_vars

\* thread t is not inside an operation
AtRest(t) ==
  IF t = Monitor THEN pc[t] \in {"top", "grace", "backoff"}
  ELSE pc[t] = "idle"

\* C32: both locks are released on every exit path: when a heartbeat
\* submission, a health query or a monitor evaluation has finished, normally
\* or through an exception raised while the locks were held, its thread holds
\* neither the in-process lock nor the file lock, and when all have finished
\* both locks are free for the next operation or probe.
C32_LocksReleased ==
  /\ \A t \in Threads :
       AtRest(t) => (state_lock # t /\ ~flk[t] /\ fd[t] = "none")
  /\ (\A t \in Threads : AtRest(t)) => state_lock = "none"

\* the only submission so far raised at line 66 while state_lock was held:
\* it was counted, neither accepted nor recorded as invalid, and the lock is
\* free again
C32_Witness ==
  /\ \A t \in Threads : AtRest(t)
  /\ state_lock = "none"
  /\ submitted = 1
  /\ state.total_received = 1
  /\ state.invalid_received = 0
  /\ state.status = "waiting_for_first_alert"


\* thread t dispatches a notification in this step
Dispatches(t) == pc'[t] # pc[t] /\ sent' # sent

\* C33: no network call is made while the state lock of the service is
\* held: every dispatch (first alert, repeated alert, recovery, daily status)
\* is made by a thread that has released the lock.
C33_NoDispatchUnderLock ==
  [][\A t \in Threads : Dispatches(t) => state_lock # t]_vars


\* ------------------------------------------ outages and their messages
\* C34: every outage is announced by an initial-alert message without
\* delay: however status became alert (monitor or health query), the first
\* alert message of the outage is the initial one, and the first iteration of
\* the monitor after the grace period that sees the timeout exceeded decides
\* it, whatever last_alert_notification says about an earlier outage.
C34_InitialAlertFirst ==
  [][/\ (MonitorWrite /\ op[Monitor] = "repeated") => alert_sent_at # Unset
     /\ ( /\ MonitorRead
          /\ now - state'.last_watchdog_time > watchdog_timeout
          /\ alert_sent_at' = Unset ) => op'[Monitor] = "alert"]_vars


\* the initial alert of the running outage is stamped but not yet dispatched
InitialAlertPending ==
  op[Monitor] = "alert" /\ pc[Monitor] \notin {"top", "grace", "write"}

\* C35: a recovery message is dispatched only for an outage that was
\* announced: when a heartbeat is accepted as a recovery (status was alert),
\* an alert message, initial or repeated, was dispatched since status became
\* alert.  (alert_sent_at is set when the monitor stamps the message it is
\* about to dispatch.)
C35_RecoveryOnlyAfterAlert ==
  [][(SubmitStep({"accepted"}) /\ was_in_alert') =>
       (alert_sent_at # Unset /\ ~InitialAlertPending)]_vars


\* C36: once status has been ok or alert, no operation and no interleaving
\* of submissions, health queries, monitor iterations, saves and refreshes
\* sets the status of the service back to a startup status.
C36_NoReturnToStartup ==
  [][state.status \in {"ok", "alert"} =>
       state'.status \in {"ok", "alert"}]_vars


\* C37: the state in memory and the durable record agree at rest: whenever
\* no operation is in progress, the load of the record equals the state of
\* the service in every field (no save fails in these runs).
C37_MemoryEqualsRecord ==
  (\A t \in Threads : AtRest(t)) =>
     (file # <<>> /\ load_existing(file) = state)


\* ------------------------------------------------- get_detailed_status
MaxQueries == 1

\* WatchdogState.format_timestamp: "never" for 0, the date and time to the
\* second otherwise
format_timestamp(ts) == IF ts = 0 THEN <<"never">> ELSE <<"at", ts>>

\* the health_status mapping that get_detailed_status copies (lines 124-134;
\* the time since the last ping and the configured timeout are left out)
health_status_copy(s) ==
  health_status(s) @@
  [last_ping |-> s.last_watchdog_time,
   last_ping_formatted |-> format_timestamp(s.last_watchdog_time)]

\* the entries that get_detailed_status adds, lines 187-203
detailed_update(s) ==
  [total_received |-> s.total_received,
   invalid_received |-> s.invalid_received,
   last_watchdog_details |-> s.last_watchdog_details,
   last_status_notification |-> format_timestamp(s.last_status_notification),
   last_alert_notification |-> format_timestamp(s.last_alert_notification)]

\* line 182: health_status = self.get_health_status(), a lock scope of its
\* own; when the status flips the save runs first (op "detail")
DetailedHealth(h) ==
  /\ h \in Handlers
  /\ pc[h] = "idle"
  /\ detailed.asked < MaxQueries
  /\ \A g \in Handlers : op[g] # "detail"
  /\ state_lock = "none"
  /\ last_check_time' = refreshed_check_time(now)
  /\ last_file_mtime' = refreshed_file_mtime(now)
  /\ op' = [op EXCEPT ![h] = "detail"]
  /\ IF health_flips(refreshed_state(now), now)
       THEN /\ state' = set_alert_status(refreshed_state(now))
            /\ state_lock' = h
            /\ pc' = [pc EXCEPT ![h] = "sv_open"]
       ELSE /\ state' = refreshed_state(now)
            /\ pc' = [pc EXCEPT ![h] = "ds_second"]
            /\ UNCHANGED state_lock
  /\ detailed' = [asked |-> detailed.asked + 1,
                  health |-> <<health_status_copy(state')>>,
                  seen |-> <<state'>>,
                  reply |-> <<>>]
  /\ UNCHANGED <<clockVars, fileVars, was_in_alert, fdVars, startup_time,
                 sent, submitted>>
  /\ edges' = edges + Edge(state, state')
  /\ alert_sent_at' = Episode(state')
  /\ UNCHANGED <<peer, watchdog_monitor, instance, probes, notifier>>

\* lines 184-206: the second lock scope copies health_status and adds the
\* counters, the details and the notification stamps of the state as it is now
DetailedCounters(h) ==
  /\ h \in Handlers
  /\ pc[h] = "ds_second"
  /\ state_lock = "none"
  /\ detailed' = [detailed EXCEPT
                    !.reply = <<detailed.health[1] @@ detailed_update(state)>>,
                    !.health = <<>>, !.seen = <<>>]
  /\ pc' = [pc EXCEPT ![h] = "idle"]
  /\ op' = [op EXCEPT ![h] = "none"]
  /\ UNCHANGED <<clockVars, fileVars, svcVars, state_lock, was_in_alert,
                 fdVars, startup_time, sent, submitted>>
  /\ UNCHANGED <<edges, alert_sent_at, peer, watchdog_monitor, instance,
                 probes, notifier>>

NextStatus ==
  \/ Next
  \/ \E h \in Handlers : DetailedHealth(h)
  \/ \E h \in Handlers : DetailedCounters(h)

SpecStatus == Init /\ [][NextStatus]_vars

\* what a detailed status of state s holds
Snapshot(s) == health_status_copy(s) @@ detailed_update(s)

\* C38: the detailed status is a consistent snapshot: the status and health
\* fields, the counters, the details and the notification stamps of one reply
\* describe the state of the service at one instant of the query, also when
\* a submission or a monitor evaluation runs during the query.
C38_ConsistentSnapshot ==
  [][\A h \in Handlers :
       DetailedCounters(h) =>
         detailed'.reply[1] \in {Snapshot(detailed.seen[1]), Snapshot(state)}]_vars


HeartbeatFields(s) == <<s.last_watchdog_time, s.last_watchdog_details>>

Counters(s) == <<s.total_received, s.invalid_received>>

\* C39: frame: the time and the details of the last heartbeat change only
\* when a valid heartbeat with the expected name is accepted, and
\* total_received and invalid_received change only on submissions; health
\* queries, detailed-status queries and monitor evaluations leave these four
\* fields unchanged.
C39_Frame ==
  [][/\ HeartbeatFields(state') # HeartbeatFields(state) =>
          SubmitStep({"accepted"})
     /\ Counters(state') # Counters(state) =>
          SubmitStep({"invalid_format", "wrong_name", "raise", "accepted"})]_vars


\* ------------------------------------- runs for the waits on the locks
\* Submissions, health and detailed-status queries and the monitor, with one
\* advance of the clock (enough for the grace period and the timeout to pass).
MaxLockTicks == 1

NextLocks ==
  \/ \E d \in TickSteps : ticks < MaxLockTicks /\ Tick(d)
  \/ \E h \in Handlers, p \in Payloads : process_watchdog_alert(h, p)
  \/ \E h \in Handlers : NotifyRecovery(h)
  \/ \E h \in Handlers : get_health_status(h)
  \/ \E h \in Handlers : DetailedHealth(h)
  \/ \E h \in Handlers : DetailedCounters(h)
  \/ \E t \in Threads : SaveOpen(t)
  \/ \E t \in Threads : SaveFlock(t)
  \/ \E t \in Threads : SaveTmp(t)
  \/ \E t \in Threads : SaveReplace(t)
  \/ \E t \in Threads : SaveClose(t)
  \/ MonitorGrace
  \/ MonitorWake
  \/ MonitorRead
  \/ MonitorWrite
  \/ MonitorNotify

SpecLocks == Init /\ [][NextLocks]_vars

\* A thread that has started an operation goes on whenever it can: storage
\* and dispatch calls return, and a thread blocked on threading.Lock or on
\* flock runs again once the lock has been free.  Requests arrive or not.
FairSpecLocks ==
  /\ SpecLocks
  /\ SF_vars(MonitorStep)
  /\ \A h \in Handlers : WF_vars(HandlerStep(h) \/ DetailedCounters(h))

\* C40: deadlock freedom: no thread waits forever for state_lock or for the
\* file lock; as storage and dispatch calls return, every operation that a
\* handler or the monitor has started comes to its end.
C40_EveryOperationCompletes ==
  \A t \in Threads : (~AtRest(t)) ~> AtRest(t)

\* a thread holds state_lock and waits for the file lock that another one has
C40_Witness ==
  \E t, u \in Threads :
    /\ t # u
    /\ pc[t] = "sv_flock" /\ state_lock = t
    /\ flk[u]

====
